---- MODULE Spec2Model ----
(***************************************************************************)
(* Model of noise/noise_protocol.py: the NoiseProtocol descriptor.         *)
(*                                                                         *)
(* A run of the model is the life of one NoiseProtocol object: the         *)
(* constructor arguments are fixed by Init, Construct is __init__          *)
(* (with _parse_protocol_name inlined as the operators below), the Engine* *)
(* actions are the external handshake engine writing into the state        *)
(* containers, and HandshakeDone is handshake_done.                        *)
(*                                                                         *)
(* Text is a sequence of one-character strings.  A PSK is represented by   *)
(* its length in bytes, the only thing __init__ reads from it.  The        *)
(* attribute dictionary of the object is the variable attrs: an attribute  *)
(* that was never assigned, or was removed with del, is not in attrs.      *)
(* The partials hmac and hkdf (lines 50-51) hold no state of their own     *)
(* and are left out.                                                       *)
(***************************************************************************)
EXTENDS Integers, Sequences, FiniteSets, TLC

\* ------------------------------------------------------------------ bounds
\* longest PSK list the caller passes
MaxPsks == 2
\* number of handshake_done calls followed on one descriptor
MaxCalls == 3

\* --------------------------------------------------------------- constants
MAX_PROTOCOL_NAME_LEN == 255

\* -------------------------------------------------------------------- text
UpperCase ==
  {"A","B","C","D","E","F","G","H","I","J","K","L","M",
   "N","O","P","Q","R","S","T","U","V","W","X","Y","Z"}

isupper(char) == char \in UpperCase

\* s[i:] of Python, i counted from 0
SliceFrom(s, i) == SubSeq(s, i + 1, Len(s))

\* first index (from 1) of sep in s, 0 when there is none
FindFrom(s, sep, i) ==
  IF \A j \in i..Len(s) : s[j] # sep THEN 0
  ELSE CHOOSE j \in i..Len(s) :
         s[j] = sep /\ \A k \in i..(j - 1) : s[k] # sep

\* str.split(sep): always at least one piece, empty pieces are kept;
\* SplitAt is split with i the place of the first separator
RECURSIVE split(_, _), SplitAt(_, _, _)
split(s, sep) == SplitAt(s, sep, FindFrom(s, sep, 1))

SplitAt(s, sep, i) ==
  IF i = 0 THEN <<s>>
  ELSE <<SubSeq(s, 1, i - 1)>> \o split(SubSeq(s, i + 1, Len(s)), sep)

\* sep.join(pieces)
RECURSIVE join(_, _)
join(pieces, sep) ==
  IF Len(pieces) = 0 THEN <<>>
  ELSE IF Len(pieces) = 1 THEN pieces[1]
  ELSE pieces[1] \o <<sep>> \o join(Tail(pieces), sep)

Pad(n) == [i \in 1..n |-> "x"]

\* ------------------------------------------------------------ text tokens
T_Noise == <<"N","o","i","s","e">>
T_noise == <<"n","o","i","s","e">>
T_NoiseX == <<"N","o","i","s","e","X">>
T_Pattern == <<"P","a","t","t","e","r","n">>
T_N == <<"N">>
T_K == <<"K">>
T_X == <<"X">>
T_NN == <<"N","N">>
T_XX == <<"X","X">>
T_IK == <<"I","K">>
T_ZZ == <<"Z","Z">>
T_xx == <<"x","x">>
T_psk0 == <<"p","s","k","0">>
T_psk1 == <<"p","s","k","1">>
T_psk2 == <<"p","s","k","2">>
T_foo == <<"f","o","o">>
T_25519 == <<"2","5","5","1","9">>
T_448 == <<"4","4","8">>
T_449 == <<"4","4","9">>
T_AESGCM == <<"A","E","S","G","C","M">>
T_ChaChaPoly == <<"C","h","a","C","h","a","P","o","l","y">>
T_DES == <<"D","E","S">>
T_SHA256 == <<"S","H","A","2","5","6">>
T_BLAKE2s == <<"B","L","A","K","E","2","s">>
T_MD5 == <<"M","D","5">>

\* -------------------------------------------------------------- registries
\* patterns_map: class name -> pattern class; calling the class gives a
\* fresh instance with no modifier applied
OneWayPatterns == {T_N, T_K, T_X}
PatternNames == {T_N, T_K, T_X, T_NN, T_XX, T_IK}

Pattern(pname) ==
  [name |-> pname, one_way |-> pname \in OneWayPatterns, psk_count |-> 0]

patterns_map == [k \in {T_Pattern \o p : p \in PatternNames} |->
                   Pattern(SliceFrom(k, Len(T_Pattern)))]

dh_map == (T_25519 :> "ED25519") @@ (T_448 :> "ED448")
cipher_map == (T_AESGCM :> "AESGCMCipher") @@ (T_ChaChaPoly :> "ChaCha20Cipher")
hash_map == (T_SHA256 :> "SHA256Hash") @@ (T_BLAKE2s :> "BLAKE2sHash")
keypair_map == (T_25519 :> "KeyPair25519") @@ (T_448 :> "KeyPair448")

\* the modifiers a pattern accepts; each of them adds one PSK token
KnownModifiers == {T_psk0, T_psk1, T_psk2}

\* Pattern.apply_pattern_modifiers: fails on the first modifier it does not
\* recognise, otherwise counts one PSK per modifier
apply_pattern_modifiers(pat, modifiers) ==
  IF \E i \in 1..Len(modifiers) : modifiers[i] \notin KnownModifiers
  THEN [ok |-> FALSE, pattern |-> pat]
  ELSE [ok |-> TRUE,
        pattern |-> [pat EXCEPT !.psk_count = pat.psk_count + Len(modifiers)]]

\* methods: the class attribute, in its insertion order
MethodOrder == <<"pattern", "dh", "cipher", "hash", "keypair">>

methods(key) ==
  CASE key = "pattern" -> patterns_map
    [] key = "dh" -> dh_map
    [] key = "cipher" -> cipher_map
    [] key = "hash" -> hash_map
    [] key = "keypair" -> keypair_map

\* ------------------------------------------------------------------ errors
Err(kind, role, key) == [kind |-> kind, role |-> role, key |-> key]
NoErr == Err("none", "", <<>>)

\* the Python exception class behind each error of the model
ExcClass(kind) ==
  CASE kind = "none" -> "none"
    [] kind = "index" -> "IndexError"
    [] kind = "attribute" -> "AttributeError"
    [] OTHER -> "ValueError"

\* --------------------------------------------------- _parse_protocol_name
\* unpacked[i] of Python, i counted from 0
At(unpacked, i) == unpacked[i + 1]
HasIndex(unpacked, i) == i + 1 <= Len(unpacked)

\* the loop of lines 69-77 from position i on: pattern collects the leading
\* uppercase characters, modifiers_str stays None unless the loop breaks
RECURSIVE ScanPattern(_, _, _)
ScanPattern(segment, i, pattern) ==
  IF i >= Len(segment)
  THEN [pattern |-> pattern, is_none |-> TRUE, modifiers_str |-> <<>>]
  ELSE IF isupper(At(segment, i))
  THEN ScanPattern(segment, i + 1, pattern \o <<At(segment, i)>>)
  ELSE [pattern |-> pattern, is_none |-> FALSE,
        modifiers_str |-> SliceFrom(segment, i)]

\* line 78 without the split: the whole suffix taken as one modifier
Modifiers_unsplit(scan) ==
  IF ~scan.is_none /\ scan.modifiers_str # <<>>
  THEN <<scan.modifiers_str>>
  ELSE <<>>

\* line 78
Modifiers(scan) ==
  IF ~scan.is_none /\ scan.modifiers_str # <<>>
  THEN split(scan.modifiers_str, "+")
  ELSE <<>>

\* lines 80-84 with the key-pair key taken from the cipher segment
data_keypair_shifted(unpacked, pattern) ==
  [key \in {"pattern", "dh", "cipher", "hash", "keypair"} |->
     CASE key = "pattern" -> T_Pattern \o pattern
       [] key = "dh" -> At(unpacked, 2)
       [] key = "cipher" -> At(unpacked, 3)
       [] key = "hash" -> At(unpacked, 4)
       [] key = "keypair" -> At(unpacked, 3)]

\* lines 80-84 with the hash key taken from the last segment
data_hash_last(unpacked, pattern) ==
  [key \in {"pattern", "dh", "cipher", "hash", "keypair"} |->
     CASE key = "pattern" -> T_Pattern \o pattern
       [] key = "dh" -> At(unpacked, 2)
       [] key = "cipher" -> At(unpacked, 3)
       [] key = "hash" -> unpacked[Len(unpacked)]
       [] key = "keypair" -> At(unpacked, 2)]

\* lines 80-84: the registry key of each role
data(unpacked, pattern) ==
  [key \in {"pattern", "dh", "cipher", "hash", "keypair"} |->
     CASE key = "pattern" -> T_Pattern \o pattern
       [] key = "dh" -> At(unpacked, 2)
       [] key = "cipher" -> At(unpacked, 3)
       [] key = "hash" -> At(unpacked, 4)
       [] key = "keypair" -> At(unpacked, 2)]

\* lines 90-95 reporting the last role whose key is unknown, not the first
FirstMiss_last(d, i) ==
  IF \A j \in i..Len(MethodOrder) :
       d[MethodOrder[j]] \in DOMAIN methods(MethodOrder[j])
  THEN 0
  ELSE CHOOSE j \in i..Len(MethodOrder) :
         /\ d[MethodOrder[j]] \notin DOMAIN methods(MethodOrder[j])
         /\ \A k \in (j + 1)..Len(MethodOrder) :
              d[MethodOrder[k]] \in DOMAIN methods(MethodOrder[k])

\* lines 90-95: position in MethodOrder of the first role whose key is
\* not in its registry, 0 when every lookup succeeds
RECURSIVE FirstMiss(_, _)
FirstMiss(d, i) ==
  IF i > Len(MethodOrder) THEN 0
  ELSE IF d[MethodOrder[i]] \notin DOMAIN methods(MethodOrder[i]) THEN i
  ELSE FirstMiss(d, i + 1)

mapped_data(d) ==
  [key \in {"pattern", "dh", "cipher", "hash", "keypair"} |-> methods(key)[d[key]]]

\* line 65 as a startswith test
BadPrefix_startswith(unpacked) ==
  \/ Len(At(unpacked, 0)) < Len(T_Noise)
  \/ SubSeq(At(unpacked, 0), 1, Len(T_Noise)) # T_Noise

\* the prefix test of line 65
BadPrefix(unpacked) == At(unpacked, 0) # T_Noise

NoParse == [reached |-> FALSE, pattern |-> <<>>, modifiers |-> <<>>]

ParseResult(e, loc, d) ==
  [err |-> e, locals |-> loc, ok |-> e.kind = "none", keys |-> d]

\* lines 87-97, d being the dictionary data
ParseLookup(loc, d, miss) ==
  IF miss # 0
  THEN ParseResult(Err("unknown", MethodOrder[miss], d[MethodOrder[miss]]),
                   loc, d)
  ELSE ParseResult(NoErr, loc, d)

\* lines 78-97, scan being the outcome of the loop; indexing unpacked
\* beyond its end raises IndexError
ParseScanned(unpacked, scan, loc) ==
  IF ~HasIndex(unpacked, 4)
  THEN ParseResult(Err("index", "", <<>>), loc, <<>>)
  ELSE ParseLookup(loc, data(unpacked, scan.pattern),
                   FirstMiss(data(unpacked, scan.pattern), 1))

ParseLocals(scan) ==
  [reached |-> TRUE, pattern |-> scan.pattern, modifiers |-> Modifiers(scan)]

\* lines 65-97
ParseUnpacked(chars, unpacked) ==
  IF BadPrefix(unpacked)
  THEN ParseResult(Err("prefix", "", chars), NoParse, <<>>)
  ELSE IF ~HasIndex(unpacked, 1)
  THEN ParseResult(Err("index", "", <<>>), NoParse, <<>>)
  ELSE ParseScanned(unpacked, ScanPattern(At(unpacked, 1), 0, <<>>),
                    ParseLocals(ScanPattern(At(unpacked, 1), 0, <<>>)))

\* _parse_protocol_name as a whole: the error it raises if any, the locals
\* pattern and modifiers once line 78 has run, and the registry keys
parse_protocol_name(chars) == ParseUnpacked(chars, split(chars, "_"))

\* ---------------------------------------------------------------- __init__
\* lines 22-23 alone, the length of the identifier left unchecked
ArgError_no_length(pn) == IF ~pn.is_bytes THEN "type" ELSE "none"

\* lines 22-25; the checks made before anything is parsed
ArgError(pn) ==
  IF ~pn.is_bytes THEN "type"
  ELSE IF Len(pn.chars) > MAX_PROTOCOL_NAME_LEN THEN "length"
  ELSE "none"

\* line 38 as a test for None only
IsPskHandshake_not_none(pk) == ~pk.is_none

\* line 38
IsPskHandshake(pk) == ~(pk.is_none \/ pk.list = <<>>)

\* lines 40-44 with the two checks in the other order
PskError_count_first(list, pat) ==
  IF Len(list) # pat.psk_count THEN "psk_count"
  ELSE IF \E i \in 1..Len(list) : list[i] # 32 THEN "psk_length"
  ELSE "none"

\* lines 40-44 with the length of the first PSK checked only
PskError_first_only(list, pat) ==
  IF list[1] # 32 THEN "psk_length"
  ELSE IF Len(list) # pat.psk_count THEN "psk_count"
  ELSE "none"

\* lines 40-44, for a non-empty list
PskError(list, pat) ==
  IF \E i \in 1..Len(list) : list[i] # 32 THEN "psk_length"
  ELSE IF Len(list) # pat.psk_count THEN "psk_count"
  ELSE "none"

\* line 53 with the role preset to responder
InitialRole_false == "False"

\* line 53: the role before finalization, None
InitialRole == "None"

NoPattern == [name |-> <<>>, one_way |-> FALSE, psk_count |-> 0]
NoPsks == [is_none |-> TRUE, list |-> <<>>]
Empty == [populated |-> FALSE, initiator |-> "None", h |-> "None"]

\* the state containers allocated (lines 57-61) ahead of the PSK checks
AttrsAt_containers_early(stage) ==
  (IF stage >= 1 THEN {"name"} ELSE {})
  \cup (IF stage >= 2 THEN {"pattern", "pattern_modifiers"} ELSE {})
  \cup (IF stage >= 3
        THEN {"psks", "is_psk_handshake", "handshake_state",
              "symmetric_state", "cipher_state_handshake",
              "cipher_state_encrypt", "cipher_state_decrypt"}
        ELSE {})
  \cup (IF stage >= 4
        THEN {"dh_fn", "cipher_fn", "hash_fn", "keypair_fn", "initiator",
              "one_way", "handshake_hash"}
        ELSE {})

\* attributes present on the object when __init__ has got past the given
\* stage: 1 line 27, 2 lines 31-32, 3 lines 37-38, 4 lines 46-61
AttrsAt(stage) ==
  (IF stage >= 1 THEN {"name"} ELSE {})
  \cup (IF stage >= 2 THEN {"pattern", "pattern_modifiers"} ELSE {})
  \cup (IF stage >= 3 THEN {"psks", "is_psk_handshake"} ELSE {})
  \cup (IF stage >= 4
        THEN {"dh_fn", "cipher_fn", "hash_fn", "keypair_fn", "initiator",
              "one_way", "handshake_hash", "handshake_state",
              "symmetric_state", "cipher_state_handshake",
              "cipher_state_encrypt", "cipher_state_decrypt"}
        ELSE {})

InitResult(stage, e, p, pat) ==
  [stage |-> stage, err |-> e, locals |-> p.locals, keys |-> p.keys,
   pattern |-> pat]

\* lines 36-61, pat being the pattern instance with its modifiers applied
InitPsks(pk, p, pat, e) ==
  IF e # "none" THEN InitResult(3, Err(e, "", <<>>), p, pat)
  ELSE InitResult(4, NoErr, p, pat)

\* lines 33-61, m being the outcome of apply_pattern_modifiers
InitModified(pk, p, m) ==
  IF ~m.ok THEN InitResult(2, Err("modifier", "", <<>>), p, m.pattern)
  ELSE InitPsks(pk, p, m.pattern,
                IF IsPskHandshake(pk) THEN PskError(pk.list, m.pattern)
                ELSE "none")

\* lines 31-61, p being the outcome of _parse_protocol_name
InitParsed(pk, p) ==
  IF ~p.ok THEN InitResult(1, p.err, p, NoPattern)
  ELSE InitModified(pk, p,
         IF p.locals.modifiers # <<>>
         THEN apply_pattern_modifiers(mapped_data(p.keys)["pattern"],
                                      p.locals.modifiers)
         ELSE [ok |-> TRUE, pattern |-> mapped_data(p.keys)["pattern"]])

\* __init__ up to the first exception: how far it got, the error, the
\* result of the parse and the pattern instance as the modifiers left it
init(pn, pk) ==
  IF ArgError(pn) # "none"
  THEN InitResult(0, Err(ArgError(pn), "", <<>>),
                  [locals |-> NoParse, keys |-> <<>>], NoPattern)
  ELSE InitParsed(pk, parse_protocol_name(pn.chars))

\* ------------------------------------------------------------------- state
VARIABLES
  protocol_name,          \* constructor argument: [is_bytes, chars]
  psks_arg,               \* constructor argument: [is_none, list]
  phase,                  \* "new", "constructed" or "failed"
  err,                    \* outcome of the last constructor or method call
  calls,                  \* handshake_done calls made so far
  locals,                 \* pattern and modifiers of _parse_protocol_name
  attrs,                  \* names of the attributes the object has
  name, pattern, pattern_modifiers, psks, is_psk_handshake,
  dh_fn, cipher_fn, hash_fn, keypair_fn,
  initiator, one_way, handshake_hash,
  handshake_state, symmetric_state,
  cipher_state_handshake, cipher_state_encrypt, cipher_state_decrypt

config == <<name, pattern, pattern_modifiers, psks, is_psk_handshake,
            dh_fn, cipher_fn, hash_fn, keypair_fn>>
args == <<protocol_name, psks_arg>>
engine == <<handshake_state, symmetric_state, cipher_state_handshake>>
slots == <<cipher_state_encrypt, cipher_state_decrypt>>
vars == <<args, phase, err, calls, locals, attrs, config, initiator, one_way,
          handshake_hash, engine, slots>>

\* ------------------------------------------------------------------ inputs
LongText == Pad(MAX_PROTOCOL_NAME_LEN)

SegmentPool ==
  << {T_Noise, T_noise, T_NoiseX, <<>>},
     {T_XX, T_N, T_ZZ, T_xx, <<>>,
      T_XX \o LongText,
      T_IK \o T_psk2,
      T_NN \o T_psk0 \o <<"+">> \o T_psk2,
      T_N \o T_psk0,
      T_XX \o T_foo,
      T_XX \o <<"+">> \o T_psk1},
     {T_25519, T_449},
     {T_AESGCM, T_DES},
     {T_SHA256, T_MD5},
     {<<"x">>, LongText} >>

\* the lists of n segments, the i-th taken from the i-th pool
RECURSIVE SegmentLists(_)
SegmentLists(n) ==
  IF n = 0 THEN {<<>>}
  ELSE {Append(l, seg) : l \in SegmentLists(n - 1), seg \in SegmentPool[n]}

Identifiers ==
  UNION {{join(l, "_") : l \in SegmentLists(n)} : n \in 1..Len(SegmentPool)}

\* a str in place of bytes is the one argument of another type
ProtocolNames ==
  {[is_bytes |-> TRUE, chars |-> c] : c \in Identifiers}
  \cup {[is_bytes |-> FALSE, chars |-> join(<<T_Noise, T_XX, T_25519, T_AESGCM, T_SHA256>>, "_")]}

PskLens == {31, 32, 33}

RECURSIVE PskLists(_)
PskLists(n) ==
  IF n = 0 THEN {<<>>}
  ELSE PskLists(n - 1)
       \cup {Append(l, k) : l \in {x \in PskLists(n - 1) : Len(x) = n - 1},
                            k \in PskLens}

PskArgs ==
  {NoPsks} \cup {[is_none |-> FALSE, list |-> l] : l \in PskLists(MaxPsks)}

Hashes == {"h1", "h2"}

\* -------------------------------------------------------------------- Init
Init ==
  /\ protocol_name \in ProtocolNames
  /\ psks_arg \in PskArgs
  /\ phase = "new"
  /\ err = NoErr
  /\ calls = 0
  /\ locals = NoParse
  /\ attrs = {}
  /\ name = <<>>
  /\ pattern = NoPattern
  /\ pattern_modifiers = <<>>
  /\ psks = NoPsks
  /\ is_psk_handshake = FALSE
  /\ dh_fn = "unset"
  /\ cipher_fn = "unset"
  /\ hash_fn = "unset"
  /\ keypair_fn = "unset"
  /\ initiator = "None"
  /\ one_way = FALSE
  /\ handshake_hash = "None"
  /\ handshake_state = Empty
  /\ symmetric_state = Empty
  /\ cipher_state_handshake = "Absent"
  /\ cipher_state_encrypt = "Absent"
  /\ cipher_state_decrypt = "Absent"

\* --------------------------------------------------------------- Construct
\* NoiseProtocol(protocol_name, psks): the whole of __init__.  When it
\* raises, the attributes assigned before the exception stay on the object
\* that the caller never receives.
Construct ==
  /\ phase = "new"
  /\ \E r \in {init(protocol_name, psks_arg)} :
     \E fns \in {IF r.stage >= 4 THEN mapped_data(r.keys) ELSE <<>>} :
     /\ phase' = IF r.stage = 4 THEN "constructed" ELSE "failed"
     /\ err' = r.err
     /\ locals' = r.locals
     /\ attrs' = AttrsAt(r.stage)
     /\ name' = IF r.stage >= 1 THEN protocol_name.chars ELSE name
     /\ pattern' = IF r.stage >= 2 THEN r.pattern ELSE pattern
     /\ pattern_modifiers' =
          IF r.stage >= 2 THEN r.locals.modifiers ELSE pattern_modifiers
     /\ psks' = IF r.stage >= 3 THEN psks_arg ELSE psks
     /\ is_psk_handshake' =
          IF r.stage >= 3 THEN IsPskHandshake(psks_arg) ELSE is_psk_handshake
     /\ dh_fn' = IF r.stage >= 4 THEN fns["dh"] ELSE dh_fn
     /\ cipher_fn' = IF r.stage >= 4 THEN fns["cipher"] ELSE cipher_fn
     /\ hash_fn' = IF r.stage >= 4 THEN fns["hash"] ELSE hash_fn
     /\ keypair_fn' = IF r.stage >= 4 THEN fns["keypair"] ELSE keypair_fn
     /\ initiator' = IF r.stage >= 4 THEN InitialRole ELSE initiator
     /\ one_way' = IF r.stage >= 4 THEN FALSE ELSE one_way
     /\ handshake_hash' = IF r.stage >= 4 THEN "None" ELSE handshake_hash
     /\ handshake_state' = IF r.stage >= 4 THEN Empty ELSE handshake_state
     /\ symmetric_state' = IF r.stage >= 4 THEN Empty ELSE symmetric_state
     /\ cipher_state_handshake' =
          IF r.stage >= 4 THEN "Empty" ELSE cipher_state_handshake
     /\ cipher_state_encrypt' =
          IF r.stage >= 4 THEN "Empty" ELSE cipher_state_encrypt
     /\ cipher_state_decrypt' =
          IF r.stage >= 4 THEN "Empty" ELSE cipher_state_decrypt
  /\ UNCHANGED <<args, calls>>

\* ------------------------------------------------------ the external engine
\* The handshake engine puts its HandshakeState, carrying the role, in
\* place of the placeholder.
EngineSetRole(role) ==
  /\ phase = "constructed"
  /\ handshake_state # [Empty EXCEPT !.populated = TRUE, !.initiator = role]
  /\ handshake_state' = [Empty EXCEPT !.populated = TRUE, !.initiator = role]
  /\ UNCHANGED <<args, phase, err, calls, locals, attrs, config, initiator,
                 one_way, handshake_hash, symmetric_state,
                 cipher_state_handshake, slots>>

\* The engine puts its SymmetricState in place of the placeholder, or mixes
\* more data into the transcript hash h; the handshake cipher state comes
\* with it.
EngineMixHash(h) ==
  /\ phase = "constructed"
  /\ symmetric_state # [Empty EXCEPT !.populated = TRUE, !.h = h]
  /\ symmetric_state' = [Empty EXCEPT !.populated = TRUE, !.h = h]
  /\ cipher_state_handshake' = "CipherState"
  /\ UNCHANGED <<args, phase, err, calls, locals, attrs, config, initiator,
                 one_way, handshake_hash, handshake_state, slots>>

\* Split: the engine derives the two transport cipher states, once, before
\* it reports completion.
EngineSplit ==
  /\ phase = "constructed"
  /\ calls = 0
  /\ symmetric_state.populated
  /\ cipher_state_encrypt = "Empty"
  /\ cipher_state_encrypt' = "CipherState"
  /\ cipher_state_decrypt' = "CipherState"
  /\ UNCHANGED <<args, phase, err, calls, locals, attrs, config, initiator,
                 one_way, handshake_hash, engine>>

\* ---------------------------------------------------------- handshake_done
\* lines 102-105 with the two branches exchanged
DiscardedSlot_swapped(ini) ==
  IF ini = "True" THEN "cipher_state_encrypt" ELSE "cipher_state_decrypt"

\* lines 102-105: the attribute that del removes for a one-way pattern
DiscardedSlot(ini) ==
  IF ini = "True" THEN "cipher_state_decrypt" ELSE "cipher_state_encrypt"

\* lines 101-105 with the del made for every pattern
Discarded_any_pattern(pat, ini) == {DiscardedSlot(ini)}

\* lines 101-105 followed by a del of the handshake state
Discarded_with_state(pat, ini) ==
  (IF pat.one_way THEN {DiscardedSlot(ini)} ELSE {}) \cup {"handshake_state"}

\* lines 101-105: the attributes handshake_done removes from the object
Discarded(pat, ini) == IF pat.one_way THEN {DiscardedSlot(ini)} ELSE {}

\* line 106: the value stored as handshake_hash
CapturedHash(sym) == sym.h

AttributeError == Err("attribute", "", <<>>)

\* handshake_done as a whole.  Reading an attribute a placeholder does not
\* have, or deleting an attribute the object no longer has, raises
\* AttributeError and leaves the assignments made before it in place.
HandshakeDone ==
  /\ phase = "constructed"
  /\ calls < MaxCalls
  /\ calls' = calls + 1
  /\ IF ~handshake_state.populated
     THEN /\ err' = AttributeError
          /\ UNCHANGED <<initiator, attrs, slots, handshake_hash>>
     ELSE
       \E gone \in {Discarded(pattern, handshake_state.initiator)} :
       /\ initiator' = handshake_state.initiator
       /\ IF ~(gone \subseteq attrs)
          THEN /\ err' = AttributeError
               /\ UNCHANGED <<attrs, slots, handshake_hash>>
          ELSE
            /\ attrs' = attrs \ gone
            /\ cipher_state_encrypt' =
                 IF "cipher_state_encrypt" \in gone
                 THEN "Absent" ELSE cipher_state_encrypt
            /\ cipher_state_decrypt' =
                 IF "cipher_state_decrypt" \in gone
                 THEN "Absent" ELSE cipher_state_decrypt
            /\ IF symmetric_state.populated
               THEN /\ handshake_hash' = CapturedHash(symmetric_state)
                    /\ err' = NoErr
               ELSE /\ err' = AttributeError
                    /\ UNCHANGED handshake_hash
  /\ UNCHANGED <<args, phase, locals, config, one_way, engine>>

\* -------------------------------------------------------------------- Next
Next ==
  \/ Construct
  \/ \E role \in {"True", "False"} : EngineSetRole(role)
  \/ \E h \in Hashes : EngineMixHash(h)
  \/ EngineSplit
  \/ HandshakeDone

Spec == Init /\ [][Next]_vars

\* ================================================================== claims
Slots == {"cipher_state_encrypt", "cipher_state_decrypt"}
NoPsksGiven == psks_arg.is_none \/ psks_arg.list = <<>>
Constructed == phase = "constructed"
Attempted == phase # "new"

\* the text before the first "_" and the number of "_"-delimited segments,
\* read off the identifier itself
Segment0(chars) ==
  IF FindFrom(chars, "_", 1) = 0 THEN chars
  ELSE SubSeq(chars, 1, FindFrom(chars, "_", 1) - 1)
SegmentCount(chars) == Cardinality({i \in 1..Len(chars) : chars[i] = "_"}) + 1

\* ---------------------------------------------------------------------- C1
\* C1: on a descriptor with a one-way pattern, the first handshake_done
\* that reads a role from handshake_state leaves exactly one of
\* cipher_state_encrypt / cipher_state_decrypt on the object, chosen by
\* that role alone: encrypt for the initiator, decrypt for the responder;
\* the other attribute is gone from the object.
C1_OneWayKeepsOneSlot ==
  [][(HandshakeDone /\ calls = 0 /\ pattern.one_way
        /\ handshake_state.populated)
     => /\ initiator' = handshake_state.initiator
        /\ attrs' \cap Slots =
             IF handshake_state.initiator = "True"
             THEN {"cipher_state_encrypt"} ELSE {"cipher_state_decrypt"}
        /\ handshake_state.initiator = "True"
             => cipher_state_encrypt' = cipher_state_encrypt
        /\ handshake_state.initiator = "False"
             => cipher_state_decrypt' = cipher_state_decrypt]_vars

C1_Witness ==
  /\ Constructed /\ pattern.one_way /\ calls = 1 /\ initiator = "True"
  /\ err = NoErr
  /\ "cipher_state_decrypt" \notin attrs
  /\ "cipher_state_encrypt" \in attrs
  /\ cipher_state_encrypt = "CipherState"

\* ---------------------------------------------------------------------- C2
\* C2: the first handshake_done that completes stores the value
\* symmetric_state.h has at that call as handshake_hash, and once
\* handshake_hash is set no step changes it.
C2_HashImmutable ==
  [][/\ (HandshakeDone /\ handshake_hash = "None" /\ err'.kind = "none")
          => handshake_hash' = symmetric_state.h
     /\ handshake_hash # "None" => handshake_hash' = handshake_hash]_vars

\* ---------------------------------------------------------------------- C3
\* C3: once a handshake_done has completed, every further handshake_done
\* on the descriptor raises an error, whatever the pattern and the role.
C3_SecondCallRejected ==
  [][(HandshakeDone /\ handshake_hash # "None") => err'.kind # "none"]_vars

\* ---------------------------------------------------------------------- C4
\* C4: on every constructed descriptor the field one_way equals the
\* one_way classification of its pattern.
C4_OneWayField == Constructed => one_way = pattern.one_way

\* ---------------------------------------------------------------------- C5
\* C5 as stated: when PSK validation runs on a list whose length differs
\* from the psk_count of the pattern, construction fails with the
\* count-mismatch error, whatever the lengths of the PSKs.
C5_CountMismatchAlways ==
  (Attempted /\ "is_psk_handshake" \in attrs /\ is_psk_handshake
     /\ Len(psks.list) # pattern.psk_count)
  => (phase = "failed" /\ err.kind = "psk_count")

\* C5 amended: such a construction fails; with the count-mismatch error
\* when every PSK is 32 bytes long, with the invalid-length error when
\* some PSK is not.
C5_CountMismatch ==
  (Attempted /\ "is_psk_handshake" \in attrs /\ is_psk_handshake
     /\ Len(psks.list) # pattern.psk_count)
  => /\ phase = "failed"
     /\ err.kind = IF \A i \in 1..Len(psks.list) : psks.list[i] = 32
                   THEN "psk_count" ELSE "psk_length"

C5_Witness ==
  /\ phase = "failed" /\ err.kind = "psk_count"
  /\ pattern.psk_count = 2 /\ psks.list = <<32>>

\* ---------------------------------------------------------------------- C6
\* C6: a constructed descriptor with is_psk_handshake holds exactly
\* pattern.psk_count PSKs, each of 32 bytes; and whenever PSK validation
\* runs on a non-empty list with an entry that is not 32 bytes, construction
\* fails with the invalid-length error.
C6_PskInvariant ==
  /\ (Constructed /\ is_psk_handshake)
       => /\ Len(psks.list) = pattern.psk_count
          /\ \A i \in 1..Len(psks.list) : psks.list[i] = 32
  /\ (Attempted /\ ~NoPsksGiven
        /\ \E i \in 1..Len(psks_arg.list) : psks_arg.list[i] # 32)
       => /\ phase = "failed"
          /\ "psks" \in attrs => err.kind = "psk_length"

C6_Witness ==
  /\ Constructed /\ is_psk_handshake
  /\ psks.list = <<32, 32>> /\ pattern.psk_count = 2

\* ---------------------------------------------------------------------- C7
\* C7: construction from a bytes identifier within the length bound that
\* begins with the segment Noise and has fewer than 5 segments fails with
\* a ValueError, the class of the prefix and registry errors.
C7_FewSegmentsValueError ==
  (Attempted /\ protocol_name.is_bytes
     /\ Len(protocol_name.chars) <= MAX_PROTOCOL_NAME_LEN
     /\ Segment0(protocol_name.chars) = T_Noise
     /\ SegmentCount(protocol_name.chars) < 5)
  => (phase = "failed" /\ ExcClass(err.kind) = "ValueError")

\* ---------------------------------------------------------------------- C8
\* C8: when _parse_protocol_name has scanned segment 1, its pattern is the
\* longest leading run of uppercase letters of the segment, and its
\* modifier list is empty when nothing follows that run and otherwise is
\* the rest of the segment cut at every "+": pieces free of "+" that give
\* the rest back when joined with "+".
C8_PatternAndModifiers ==
  locals.reached =>
    \E seg \in {split(protocol_name.chars, "_")[2]} :
    \E k \in 0..Len(seg) :
      /\ \A i \in 1..k : seg[i] \in UpperCase
      /\ k < Len(seg) => seg[k + 1] \notin UpperCase
      /\ locals.pattern = SubSeq(seg, 1, k)
      /\ IF k = Len(seg) THEN locals.modifiers = <<>>
         ELSE /\ Len(locals.modifiers) >= 1
              /\ join(locals.modifiers, "+") = SubSeq(seg, k + 1, Len(seg))
              /\ \A j \in 1..Len(locals.modifiers) :
                   \A i \in 1..Len(locals.modifiers[j]) :
                     locals.modifiers[j][i] # "+"

C8_Witness ==
  /\ locals.reached
  /\ locals.pattern = T_IK
  /\ locals.modifiers = <<T_psk2>>

\* ---------------------------------------------------------------------- C9
\* identifiers Noise_<P><suffix>_<D>_<C>_<H> with P, D, C and H in their
\* registries
Suffixes ==
  {<<>>, T_psk0, T_psk2, T_psk0 \o <<"+">> \o T_psk2, T_foo,
   <<"+">> \o T_psk1, LongText}

KnownIdentifiers ==
  {[chars |-> join(<<T_Noise, p \o sfx, d, c, h>>, "_"),
    p |-> p, sfx |-> sfx, d |-> d, c |-> c, h |-> h] :
     p \in PatternNames, sfx \in Suffixes, d \in DOMAIN dh_map,
     c \in DOMAIN cipher_map, h \in DOMAIN hash_map}

\* the pattern accepts every modifier of the suffix
Accepted(sfx) ==
  sfx = <<>> \/ \A i \in 1..Len(split(sfx, "+")) :
                   split(sfx, "+")[i] \in KnownModifiers

Resolved(w) ==
  /\ Constructed
  /\ pattern.name = w.p
  /\ dh_fn = dh_map[w.d]
  /\ cipher_fn = cipher_map[w.c]
  /\ hash_fn = hash_map[w.h]
  /\ keypair_fn = keypair_map[w.d]
  /\ w.sfx = <<>> => pattern_modifiers = <<>>

\* C9 as stated: construction without PSKs from any such identifier
\* succeeds and binds pattern, dh_fn, cipher_fn, hash_fn and keypair_fn to
\* the registry entries for P, D, C, H and D, with no modifiers when
\* segment 1 is all uppercase.
C9_KnownAlwaysResolves ==
  (Attempted /\ protocol_name.is_bytes /\ NoPsksGiven)
  => \A w \in KnownIdentifiers :
       w.chars = protocol_name.chars => Resolved(w)

\* C9 amended: the same, for the identifiers that are within the length
\* bound and whose modifiers the pattern accepts.
C9_KnownResolves ==
  (Attempted /\ protocol_name.is_bytes /\ NoPsksGiven)
  => \A w \in KnownIdentifiers :
       (/\ w.chars = protocol_name.chars
        /\ Len(w.chars) <= MAX_PROTOCOL_NAME_LEN
        /\ Accepted(w.sfx))
       => Resolved(w)

C9_Witness ==
  /\ Constructed /\ NoPsksGiven
  /\ protocol_name.chars = join(<<T_Noise, T_XX, T_25519, T_AESGCM, T_SHA256>>, "_")
  /\ pattern.name = T_XX /\ pattern_modifiers = <<>>
  /\ dh_fn = "ED25519" /\ cipher_fn = "AESGCMCipher"
  /\ hash_fn = "SHA256Hash" /\ keypair_fn = "KeyPair25519"

\* --------------------------------------------------------------------- C10
\* C10: construction from a bytes identifier whose text before the first
\* "_" is not Noise fails with a malformed-identifier error: the prefix
\* error naming the identifier, or the length error when the identifier is
\* longer than the bound.
C10_BadPrefixFails ==
  (Attempted /\ protocol_name.is_bytes
     /\ Segment0(protocol_name.chars) # T_Noise)
  => /\ phase = "failed"
     /\ attrs \subseteq {"name"}
     /\ err = IF Len(protocol_name.chars) > MAX_PROTOCOL_NAME_LEN
              THEN Err("length", "", <<>>)
              ELSE Err("prefix", "", protocol_name.chars)

C10_Witness ==
  /\ phase = "failed" /\ err.kind = "prefix"
  /\ Segment0(protocol_name.chars) = T_NoiseX
  /\ SegmentCount(protocol_name.chars) = 5

\* --------------------------------------------------------------------- C11
\* C11: construction from a bytes identifier longer than the maximum
\* length fails with the length error before anything is parsed: no
\* attribute is assigned and the parser has not run, whatever the prefix,
\* the number of segments and the primitives named.
C11_TooLongFailsFirst ==
  (Attempted /\ protocol_name.is_bytes
     /\ Len(protocol_name.chars) > MAX_PROTOCOL_NAME_LEN)
  => /\ phase = "failed"
     /\ err = Err("length", "", <<>>)
     /\ attrs = {}
     /\ ~locals.reached

C11_Witness ==
  /\ phase = "failed" /\ err.kind = "length"
  /\ Segment0(protocol_name.chars) = T_Noise
  /\ SegmentCount(protocol_name.chars) = 2

\* --------------------------------------------------------------------- C12
Roles == {"pattern", "dh", "cipher", "hash", "keypair"}

\* the key each role asks its registry for, read off the identifier; the
\* pattern name is the one the parser isolated
RequestedKey(role) ==
  CASE role = "pattern" -> T_Pattern \o locals.pattern
    [] role = "dh" -> split(protocol_name.chars, "_")[3]
    [] role = "cipher" -> split(protocol_name.chars, "_")[4]
    [] role = "hash" -> split(protocol_name.chars, "_")[5]
    [] role = "keypair" -> split(protocol_name.chars, "_")[3]

Registry(role) ==
  CASE role = "pattern" -> DOMAIN patterns_map
    [] role = "dh" -> DOMAIN dh_map
    [] role = "cipher" -> DOMAIN cipher_map
    [] role = "hash" -> DOMAIN hash_map
    [] role = "keypair" -> DOMAIN keypair_map

RolePosition(role) == CHOOSE i \in 1..Len(MethodOrder) : MethodOrder[i] = role

\* C12: for an identifier within the length bound with prefix Noise and at
\* least 5 segments, if some role's key is missing from its registry,
\* construction fails with the unknown-primitive error carrying the role
\* and the requested key of the first such role in the order pattern, dh,
\* cipher, hash, keypair; a segment 1 without a leading uppercase letter
\* asks for the pattern key with an empty name and fails that lookup.
C12_UnknownPrimitive ==
  (Attempted /\ protocol_name.is_bytes
     /\ Len(protocol_name.chars) <= MAX_PROTOCOL_NAME_LEN
     /\ Segment0(protocol_name.chars) = T_Noise
     /\ SegmentCount(protocol_name.chars) >= 5)
  => /\ (\E role \in Roles : RequestedKey(role) \notin Registry(role))
          => /\ phase = "failed"
             /\ err.kind = "unknown"
             /\ err.role \in Roles
             /\ err.key = RequestedKey(err.role)
             /\ err.key \notin Registry(err.role)
             /\ \A role \in Roles :
                  RolePosition(role) < RolePosition(err.role)
                    => RequestedKey(role) \in Registry(role)
     /\ locals.pattern = <<>> => err = Err("unknown", "pattern", T_Pattern)

C12_Witness ==
  /\ phase = "failed"
  /\ err = Err("unknown", "pattern", T_Pattern)
  /\ split(protocol_name.chars, "_")[2] = T_xx

\* --------------------------------------------------------------------- C13
Containers ==
  {"handshake_state", "symmetric_state", "cipher_state_handshake",
   "cipher_state_encrypt", "cipher_state_decrypt"}

\* C13: whenever construction fails, whatever the error, none of the five
\* state containers has been assigned.
C13_FailureBeforeContainers ==
  phase = "failed"
  => /\ err.kind \in {"type", "length", "prefix", "index", "unknown",
                      "modifier", "psk_length", "psk_count"}
     /\ attrs \cap Containers = {}
     /\ handshake_state = Empty /\ symmetric_state = Empty
     /\ cipher_state_handshake = "Absent"
     /\ cipher_state_encrypt = "Absent"
     /\ cipher_state_decrypt = "Absent"

C13_Witness ==
  /\ phase = "failed" /\ err.kind = "psk_count"
  /\ "psks" \in attrs
  /\ attrs \cap Containers = {}

\* --------------------------------------------------------------------- C14
\* C14: on a constructed descriptor that no handshake_done has been called
\* on, handshake_hash and initiator are None; and a step that changes
\* either of them is a handshake_done.
C14_UnsetUntilDone ==
  /\ [](Constructed /\ calls = 0
          => handshake_hash = "None" /\ initiator = "None")
  /\ [][(initiator' # initiator \/ handshake_hash' # handshake_hash)
          => HandshakeDone]_vars

C14_Witness ==
  /\ Constructed /\ calls = 0
  /\ handshake_state.populated /\ symmetric_state.populated
  /\ cipher_state_encrypt = "CipherState"
  /\ handshake_hash = "None" /\ initiator = "None"

\* --------------------------------------------------------------------- C15
\* C15: when the caller passes no PSK list or an empty one and the
\* identifier resolves, is_psk_handshake is false, no PSK check fails and
\* construction succeeds, also for a pattern whose psk_count is above 0;
\* psks holds no PSK.
C15_NoPsksNoValidation ==
  (Attempted /\ NoPsksGiven)
  => /\ err.kind \notin {"psk_length", "psk_count"}
     /\ "psks" \in attrs
          => /\ Constructed
             /\ ~is_psk_handshake
             /\ psks = psks_arg
             /\ psks.list = <<>>

C15_Witness ==
  /\ Constructed /\ NoPsksGiven /\ ~psks_arg.is_none
  /\ pattern.psk_count = 2
  /\ ~is_psk_handshake /\ psks.list = <<>>

\* --------------------------------------------------------------------- C16
\* C16: on a descriptor whose pattern is not one-way, both
\* cipher_state_encrypt and cipher_state_decrypt stay on the object, and a
\* handshake_done leaves both as they were, for either role.
C16_TwoWayKeepsBoth ==
  /\ [](Constructed /\ ~pattern.one_way => Slots \subseteq attrs)
  /\ [][(HandshakeDone /\ ~pattern.one_way)
          => /\ cipher_state_encrypt' = cipher_state_encrypt
             /\ cipher_state_decrypt' = cipher_state_decrypt
             /\ Slots \subseteq attrs']_vars

C16_Witness ==
  /\ Constructed /\ ~pattern.one_way
  /\ calls = 1 /\ err = NoErr /\ initiator = "False"
  /\ handshake_hash # "None"
  /\ Slots \subseteq attrs
  /\ cipher_state_encrypt = "CipherState"
  /\ cipher_state_decrypt = "CipherState"

\* --------------------------------------------------------------------- C17
Kept ==
  {"name", "pattern", "pattern_modifiers", "psks", "is_psk_handshake",
   "dh_fn", "cipher_fn", "hash_fn", "keypair_fn", "handshake_state",
   "symmetric_state", "cipher_state_handshake"}

\* C17: a handshake_done leaves name, pattern, pattern_modifiers, psks,
\* is_psk_handshake, the four function handles, handshake_state,
\* symmetric_state and cipher_state_handshake on the object with their
\* values, and removes at most one of the two transport cipher slots.
C17_DoneFrame ==
  [][HandshakeDone
     => /\ UNCHANGED <<config, handshake_state, symmetric_state,
                       cipher_state_handshake, one_way>>
        /\ attrs' \cap Kept = attrs \cap Kept
        /\ attrs' \subseteq attrs
        /\ Cardinality(attrs \ attrs') <= 1
        /\ attrs \ attrs' \subseteq Slots]_vars

C17_Witness ==
  /\ Constructed /\ pattern.one_way /\ calls = 1 /\ err = NoErr
  /\ initiator = "False" /\ handshake_hash = "h2"
  /\ Kept \subseteq attrs
  /\ attrs \cap Slots = {"cipher_state_decrypt"}
  /\ is_psk_handshake

\* --------------------------------------------------------------------- C18
\* C18: on a one-way descriptor whose handshake and symmetric state the
\* engine has populated, a handshake_done that fails leaves initiator,
\* handshake_hash and both cipher slots as they were, and at least one of
\* the two slots is still on the object.
C18_FailedCallChangesNothing ==
  [][(HandshakeDone /\ pattern.one_way /\ handshake_state.populated
        /\ symmetric_state.populated /\ err'.kind # "none")
     => /\ UNCHANGED <<initiator, handshake_hash, slots, attrs>>
        /\ attrs' \cap Slots # {}]_vars

\* --------------------------------------------------------------------- C19
Extras == {<<"x">>, LongText}

ExtendedIdentifiers ==
  {[chars |-> w.chars \o <<"_">> \o x, base |-> w.chars] :
     w \in {k \in KnownIdentifiers : Len(k.chars) <= MAX_PROTOCOL_NAME_LEN},
     x \in Extras}

BytesName(chars) == [is_bytes |-> TRUE, chars |-> chars]

\* the descriptor is the one the five-segment identifier base gives
SameAsBase(base) ==
  \E r \in {init(BytesName(base), psks_arg)} :
    r.stage = 4
    => /\ Constructed
       /\ pattern = r.pattern
       /\ pattern_modifiers = r.locals.modifiers
       /\ dh_fn = dh_map[r.keys["dh"]]
       /\ cipher_fn = cipher_map[r.keys["cipher"]]
       /\ hash_fn = hash_map[r.keys["hash"]]
       /\ keypair_fn = keypair_map[r.keys["keypair"]]

\* C19 as stated: an identifier made of Noise_<P>_<D>_<C>_<H> with known
\* keys and further segments constructs whenever the five-segment
\* identifier does, and resolves to the same pattern, functions and
\* modifier list.
C19_ExtraSegmentsAlwaysIgnored ==
  (Attempted /\ protocol_name.is_bytes)
  => \A e \in ExtendedIdentifiers :
       e.chars = protocol_name.chars => SameAsBase(e.base)

\* C19 amended: the same, for identifiers that with their extra segments
\* are still within the length bound.
C19_ExtraSegmentsIgnored ==
  (Attempted /\ protocol_name.is_bytes
     /\ Len(protocol_name.chars) <= MAX_PROTOCOL_NAME_LEN)
  => \A e \in ExtendedIdentifiers :
       e.chars = protocol_name.chars => SameAsBase(e.base)

C19_Witness ==
  /\ Constructed
  /\ SegmentCount(protocol_name.chars) = 6
  /\ pattern.name = T_IK /\ pattern_modifiers = <<T_psk2>>
  /\ pattern.psk_count = 1 /\ is_psk_handshake
  /\ hash_fn = "SHA256Hash"

====
